---- MODULE Spec2Model ----
(***************************************************************************)
(* Model of vc3infoservice/infoservice.py: InfoHandler, the document and   *)
(* entity store behind InfoServiceAPI, with its merge algorithm, its use   *)
(* of the persistence plugin's lock, and the pairing lookup.               *)
(*                                                                         *)
(* The persistence plugin (self.persist: getdocument, storedocument, lock) *)
(* is loaded through pluginmanager and its code is not part of the source  *)
(* tree; it is modelled from its contract (PersistGet, PersistStore,       *)
(* LockFree).                                                              *)
(***************************************************************************)
EXTENDS Integers, Sequences, FiniteSets, TLC

(***************************************************************************)
(* Bounds of the model.                                                    *)
(***************************************************************************)
\* number of concurrently running request handlers (cherrypy worker threads)
NumHandlers == 2
\* total number of requests the handlers serve in one behaviour
MaxOps == 2

\* longest list among the values given to merge
MaxLen == 2

Handlers == 1..NumHandlers
NoHolder == 0

(***************************************************************************)
(* Python values after json.loads, as tagged records.  "other" stands for  *)
(* any Python object that is none of None, bool, number, string, list or   *)
(* dict (a tuple, a set, an arbitrary object).                             *)
(***************************************************************************)
Null == [t |-> "null"]
Bool(b) == [t |-> "bool", v |-> b]
Num(n) == [t |-> "num", v |-> n]
Str(s) == [t |-> "str", v |-> s]
List(s) == [t |-> "list", v |-> s]
Map(f) == [t |-> "map", v |-> f]
Other == [t |-> "other"]
\* an exception raised by merge (line 409)
Raise == [t |-> "raise"]
\* the empty dict {}
EmptyDoc == Map(<<>>)

\* numeric value of a bool or number under Python's == (True == 1, False == 0)
PyNum(a) == IF a.t = "bool" THEN (IF a.v THEN 1 ELSE 0) ELSE a.v

\* Python's == on values
RECURSIVE PyEq(_, _)
PyEq(a, b) ==
    IF a.t \in {"bool", "num"} /\ b.t \in {"bool", "num"} THEN PyNum(a) = PyNum(b)
    ELSE IF a.t # b.t THEN FALSE
    ELSE IF a.t = "list" THEN
        /\ Len(a.v) = Len(b.v)
        /\ \A i \in 1..Len(a.v) : PyEq(a.v[i], b.v[i])
    ELSE IF a.t = "map" THEN
        /\ DOMAIN a.v = DOMAIN b.v
        /\ \A k \in DOMAIN a.v : PyEq(a.v[k], b.v[k])
    ELSE a = b

\* Python's "item in dest" on a list
PyIn(item, s) == \E i \in 1..Len(s) : PyEq(s[i], item)

\* the list branch done with dest.extend(src)
AppendAll(src, dest) == dest \o src

\* lines 388-390: for item in src: if item not in dest: dest.append(item)
RECURSIVE AppendNew(_, _)
AppendNew(src, dest) ==
    IF src = <<>> THEN dest
    ELSE AppendNew(Tail(src),
                   IF PyIn(Head(src), dest) THEN dest ELSE Append(dest, Head(src)))

\* the isinstance tests with bool not counted as an int
IsPrimitiveNoBool(x) == x.t \in {"null", "str", "num"}

\* lines 380-381: the isinstance tests of the first branch (bool is an int)
IsPrimitive(x) == x.t \in {"null", "str", "num", "bool"}

\* merge with the mappings merged as dest.update(src): a key of both gets src's
\* value
mergeShallow(src, dest) ==
    IF IsPrimitive(dest) THEN src
    ELSE IF dest.t = "list" THEN
        IF src.t = "list" THEN List(AppendNew(src.v, dest.v)) ELSE dest
    ELSE IF dest.t = "map" THEN
        IF src.t = "map" THEN
            Map([k \in DOMAIN src.v \cup DOMAIN dest.v |->
                    IF k \in DOMAIN src.v THEN src.v[k] ELSE dest.v[k]])
        ELSE IF src.t = "null" THEN Null
        ELSE dest
    ELSE Raise

\* merge without the "elif src is None" branch: None into a dict leaves the dict
RECURSIVE mergeNullIgnored(_, _)
mergeNullIgnored(src, dest) ==
    IF IsPrimitive(dest) THEN src
    ELSE IF dest.t = "list" THEN
        IF src.t = "list" THEN List(AppendNew(src.v, dest.v)) ELSE dest
    ELSE IF dest.t = "map" THEN
        IF src.t = "map" THEN
            LET merged == [k \in DOMAIN src.v \cup DOMAIN dest.v |->
                              IF k \in DOMAIN src.v
                              THEN IF k \in DOMAIN dest.v
                                   THEN mergeNullIgnored(src.v[k], dest.v[k])
                                   ELSE src.v[k]
                              ELSE dest.v[k]]
            IN IF \E k \in DOMAIN merged : merged[k] = Raise THEN Raise ELSE Map(merged)
        ELSE dest
    ELSE Raise

\* merge without the final else branch: a dest of any other type is returned
RECURSIVE mergeLenient(_, _)
mergeLenient(src, dest) ==
    IF IsPrimitive(dest) THEN src
    ELSE IF dest.t = "list" THEN
        IF src.t = "list" THEN List(AppendNew(src.v, dest.v)) ELSE dest
    ELSE IF dest.t = "map" THEN
        IF src.t = "map" THEN
            Map([k \in DOMAIN src.v \cup DOMAIN dest.v |->
                    IF k \in DOMAIN src.v
                    THEN IF k \in DOMAIN dest.v
                         THEN mergeLenient(src.v[k], dest.v[k])
                         ELSE src.v[k]
                    ELSE dest.v[k]])
        ELSE IF src.t = "null" THEN Null
        ELSE dest
    ELSE dest

\* InfoHandler.merge(src, dest): the value returned, or Raise
RECURSIVE merge(_, _)
merge(src, dest) ==
    IF IsPrimitive(dest) THEN src
    ELSE IF dest.t = "list" THEN
        IF src.t = "list" THEN List(AppendNew(src.v, dest.v)) ELSE dest
    ELSE IF dest.t = "map" THEN
        IF src.t = "map" THEN
            LET merged == [k \in DOMAIN src.v \cup DOMAIN dest.v |->
                              IF k \in DOMAIN src.v
                              THEN IF k \in DOMAIN dest.v
                                   THEN merge(src.v[k], dest.v[k])
                                   ELSE src.v[k]
                              ELSE dest.v[k]]
            IN IF \E k \in DOMAIN merged : merged[k] = Raise THEN Raise ELSE Map(merged)
        ELSE IF src.t = "null" THEN Null
        ELSE dest
    ELSE Raise

\* entitymerge done with the recursive merge instead of the attribute replace
entitymergeDeep(src, dest) == merge(src, dest)

\* InfoHandler.entitymerge(src, dest): dest after the in-place attribute replace
entitymerge(src, dest) ==
    Map([a \in DOMAIN src.v \cup DOMAIN dest.v |->
            IF a \in DOMAIN src.v THEN src.v[a] ELSE dest.v[a]])

(***************************************************************************)
(* Requests.                                                               *)
(***************************************************************************)
Keys == {"user", "pairing"}
Names == {"a", "b"}
Codes == {"X123"}

\* request bodies (the data argument of PUT and POST after json.loads)
\* an entity with a number, a list and a mapping attribute
E1 == Map("x" :> Num(1) @@ "y" :> List(<<Num(1)>>) @@ "z" :> Map("m" :> Num(1)))
\* a fragment naming two of E1's attributes, with other values
E2 == Map("y" :> List(<<Num(2)>>) @@ "z" :> Map("n" :> Num(2)))
\* a pairing entry whose certificate has been issued
PairingEntry == Map("pairingcode" :> Str("X123") @@ "cert" :> Str("ABC"))
\* a body indexing two entities, and one indexing a single entity
D1 == Map("a" :> E1 @@ "b" :> PairingEntry)
D2 == Map("a" :> E2)
Payloads == {D1, D2}

\* what the persistence plugin holds when the service starts: a document stored
\* by earlier requests under one key, nothing under the other
InitStores == {"pairing" :> D1}

NoData == Null
NoReq == [op |-> "none", key |-> "", entityname |-> "", data |-> NoData]
Req(o, k, n, d) == [op |-> o, key |-> k, entityname |-> n, data |-> d]

\* what a handler method hands back to InfoServiceAPI
Res(s, v) == [status |-> s, value |-> v]
NoRes == Res("none", Null)
Ok == Res("ok", Null)
EntityExists == Res("EntityExists", Null)
EntityMissing == Res("EntityMissing", Null)
PairingNotReady == Res("PairingNotReady", Null)
NameError == Res("NameError", Null)
AttributeError == Res("AttributeError", Null)
MergeError == Res("Exception", Null)

VARIABLES
    store,       \* the persistence plugin's documents: key -> document
    lock,        \* self.persist.lock: the handler holding it, or NoHolder
    pc,          \* where each handler is in its method
    req,         \* each handler's current (or last) request
    currentdoc,  \* each handler's local currentdoc / doc / dcurrent
    result,      \* each handler's outcome of its current (or last) request
    nops,        \* requests started so far
    store0       \* history: the documents held when the service started

vars == <<store, lock, pc, req, currentdoc, result, nops, store0>>

(***************************************************************************)
(* The persistence plugin, from its contract.                              *)
(***************************************************************************)
\* persist.getdocument(key): an unknown key reads as the empty mapping
PersistGet(s, k) == IF k \in DOMAIN s THEN s[k] ELSE EmptyDoc
\* persist.storedocument(key, doc): full overwrite of the document at key
PersistStore(s, k, d) == [x \in DOMAIN s \cup {k} |-> IF x = k THEN d ELSE s[x]]
\* persist.lock.acquire() returns only when no handler holds the lock
LockFree(h) == lock = NoHolder

Init ==
    /\ store \in InitStores
    /\ store0 = store
    /\ lock = NoHolder
    /\ pc = [h \in Handlers |-> "idle"]
    /\ req = [h \in Handlers |-> NoReq]
    /\ currentdoc = [h \in Handlers |-> Null]
    /\ result = [h \in Handlers |-> NoRes]
    /\ nops = 0

LockedOps == {"storeentity", "mergeentity", "deleteentity",
              "storedocument", "mergedocument", "deletedocument"}
LoadingOps == {"storeentity", "mergeentity", "deleteentity", "mergedocument"}

\* InfoServiceAPI dispatches a request to a handler method (GET, PUT, POST, DELETE)
Call(h, r) ==
    /\ pc[h] = "idle"
    /\ nops < MaxOps
    /\ nops' = nops + 1
    /\ req' = [req EXCEPT ![h] = r]
    /\ result' = [result EXCEPT ![h] = NoRes]
    /\ pc' = [pc EXCEPT ![h] = IF r.op \in LockedOps THEN "acquire" ELSE "run"]
    /\ UNCHANGED <<store, lock, currentdoc, store0>>

\* a release that is skipped when the try block did not end well
ReleasedOnSuccess(h) == IF result'[h] = Ok THEN NoHolder ELSE lock

\* the lock value left by "finally: self.persist.lock.release()"
Released(h) == NoHolder

\* Acquire without the wait for the lock: a method that enters its try block
\* while another handler is inside one
AcquireUnguarded(h) ==
    /\ pc[h] = "acquire"
    /\ lock' = h
    /\ currentdoc' = [currentdoc EXCEPT ![h] =
                         IF req[h].op \in LoadingOps
                         THEN PersistGet(store, req[h].key) ELSE Null]
    /\ pc' = [pc EXCEPT ![h] = "locked"]
    /\ UNCHANGED <<store, req, result, nops, store0>>

\* self.persist.lock.acquire(), then the first statement of the try block:
\* currentdoc = self.persist.getdocument(key) in the methods that load
Acquire(h) ==
    /\ pc[h] = "acquire"
    /\ LockFree(h)
    /\ lock' = h
    /\ currentdoc' = [currentdoc EXCEPT ![h] =
                         IF req[h].op \in LoadingOps
                         THEN PersistGet(store, req[h].key) ELSE Null]
    /\ pc' = [pc EXCEPT ![h] = "locked"]
    /\ UNCHANGED <<store, req, result, nops, store0>>

\* the rest of a try block, with its outcome res and the documents it leaves
\* stored, then the finally clause and the return (or the propagating exception)
Finish(h, res, newstore) ==
    /\ store' = newstore
    /\ result' = [result EXCEPT ![h] = res]
    /\ lock' = Released(h)
    /\ currentdoc' = [currentdoc EXCEPT ![h] = Null]
    /\ pc' = [pc EXCEPT ![h] = "idle"]
    /\ UNCHANGED <<req, nops, store0>>

\* the outcome of a try block: what the method answers and the document it hands
\* to persist.storedocument, or NoWrite when it stores nothing
NoWrite == [t |-> "nowrite"]
Out(res, doc) == [res |-> res, doc |-> doc]

\* storeentity without the test for an existing entity
storeentityNoCheck(entityname, entitydict, cur) ==
    Out(Ok, merge(entitydict, cur))

\* storeentity, lines 90-101, on the loaded currentdoc
storeentity(entityname, entitydict, cur) ==
    IF entityname \in DOMAIN cur.v
    THEN Out(EntityExists, NoWrite)
    ELSE LET newdoc == merge(entitydict, cur)
         IN IF newdoc = Raise THEN Out(MergeError, NoWrite) ELSE Out(Ok, newdoc)

\* mergeentity, lines 117-128: either lookup raising KeyError gives the 405 answer
mergeentity(entityname, entitydict, cur) ==
    IF entityname \notin DOMAIN cur.v \/ entityname \notin DOMAIN entitydict.v
    THEN Out(EntityMissing, NoWrite)
    ELSE LET newentity == entitymerge(entitydict.v[entityname], cur.v[entityname])
         IN Out(Ok, Map([cur.v EXCEPT ![entityname] = newentity]))

\* deleteentity with doc.pop(entityname, None): no KeyError, the document is stored
deleteentityPopDefault(entityname, cur) ==
    Out(Ok, Map([x \in DOMAIN cur.v \ {entityname} |-> cur.v[x]]))

\* deleteentity that empties the document instead of popping one name
deleteentityClears(entityname, cur) ==
    IF entityname \notin DOMAIN cur.v
    THEN Out(EntityMissing, NoWrite)
    ELSE Out(Ok, EmptyDoc)

\* deleteentity, lines 180-187: doc.pop(entityname) raises KeyError when absent
deleteentity(entityname, cur) ==
    IF entityname \notin DOMAIN cur.v
    THEN Out(EntityMissing, NoWrite)
    ELSE Out(Ok, Map([x \in DOMAIN cur.v \ {entityname} |-> cur.v[x]]))

\* storedocument, line 204
storedocument(pd) == Out(Ok, pd)

\* mergedocument storing the request body in its first block and failing later
mergedocumentStoresFirst(md, dcurrent) == Out(NameError, md)

\* mergedocument, lines 212-215: the name pd is not bound (line 213 is commented
\* out), so storedocument(key, pd) raises NameError before anything is stored;
\* the second block (lines 219-229) is never entered
mergedocument(md, dcurrent) == Out(NameError, NoWrite)

\* deletedocument that never reaches storedocument
deletedocumentNoStore == Out(Ok, NoWrite)

\* deletedocument, lines 235-237
deletedocument == Out(Ok, EmptyDoc)

\* the documents stored once a try block with outcome o has run on key k
Stored(s, k, o) == IF o.doc = NoWrite THEN s ELSE PersistStore(s, k, o.doc)

StoreEntityBody(h) ==
    /\ pc[h] = "locked"
    /\ req[h].op = "storeentity"
    /\ LET o == storeentity(req[h].entityname, req[h].data, currentdoc[h])
       IN Finish(h, o.res, Stored(store, req[h].key, o))

MergeEntityBody(h) ==
    /\ pc[h] = "locked"
    /\ req[h].op = "mergeentity"
    /\ LET o == mergeentity(req[h].entityname, req[h].data, currentdoc[h])
       IN Finish(h, o.res, Stored(store, req[h].key, o))

DeleteEntityBody(h) ==
    /\ pc[h] = "locked"
    /\ req[h].op = "deleteentity"
    /\ LET o == deleteentity(req[h].entityname, currentdoc[h])
       IN Finish(h, o.res, Stored(store, req[h].key, o))

\* storedocument that merges the body into the stored document
StoreDocumentBodyMerging(h) ==
    /\ pc[h] = "locked"
    /\ req[h].op = "storedocument"
    /\ Finish(h, Ok, PersistStore(store, req[h].key,
                                  merge(req[h].data, PersistGet(store, req[h].key))))

StoreDocumentBody(h) ==
    /\ pc[h] = "locked"
    /\ req[h].op = "storedocument"
    /\ LET o == storedocument(req[h].data)
       IN Finish(h, o.res, Stored(store, req[h].key, o))

MergeDocumentBody(h) ==
    /\ pc[h] = "locked"
    /\ req[h].op = "mergedocument"
    /\ LET o == mergedocument(req[h].data, currentdoc[h])
       IN Finish(h, o.res, Stored(store, req[h].key, o))

DeleteDocumentBody(h) ==
    /\ pc[h] = "locked"
    /\ req[h].op = "deletedocument"
    /\ LET o == deletedocument
       IN Finish(h, o.res, Stored(store, req[h].key, o))

\* a method that never takes the lock returns
Return(h, res) ==
    /\ result' = [result EXCEPT ![h] = res]
    /\ pc' = [pc EXCEPT ![h] = "idle"]
    /\ UNCHANGED <<store, lock, req, currentdoc, nops, store0>>

\* getdocument, lines 246-249
GetDocument(h) ==
    /\ pc[h] = "run"
    /\ req[h].op = "getdocument"
    /\ Return(h, Res("ok", PersistGet(store, req[h].key)))

\* getentity with currentdoc.get(entityname): an absent name answers null
getentityDefault(entityname, doc) ==
    IF entityname \in DOMAIN doc.v THEN Res("ok", doc.v[entityname]) ELSE Res("ok", Null)

\* getentity, lines 163-170, on the document read at line 161
getentity(entityname, doc) ==
    IF entityname \in DOMAIN doc.v THEN Res("ok", doc.v[entityname]) ELSE EntityMissing

\* getentity on a document object shared with a mergeentity that is inside
\* entitymerge: one attribute of the fragment is replaced and the others not yet
GetEntityDirty(h) ==
    /\ pc[h] = "run"
    /\ req[h].op = "getentity"
    /\ LET n == req[h].entityname
           doc == PersistGet(store, req[h].key)
           inside == {g \in Handlers :
                        /\ pc[g] = "locked"
                        /\ req[g].op = "mergeentity"
                        /\ req[g].key = req[h].key
                        /\ req[g].entityname = n
                        /\ n \in DOMAIN doc.v
                        /\ n \in DOMAIN req[g].data.v}
       IN IF inside = {}
          THEN Return(h, getentity(n, doc))
          ELSE LET g == CHOOSE g \in inside : TRUE
                   frag == req[g].data.v[n].v
                   a == CHOOSE a \in DOMAIN frag : TRUE
               IN Return(h, Res("ok", Map([x \in DOMAIN doc.v[n].v \cup {a} |->
                                              IF x = a THEN frag[a] ELSE doc.v[n].v[x]])))

GetEntity(h) ==
    /\ pc[h] = "run"
    /\ req[h].op = "getentity"
    /\ Return(h, getentity(req[h].entityname, PersistGet(store, req[h].key)))

\* getpairing, line 427: InfoHandler has no method _getpythondocument (its
\* definition at lines 346-352 is commented out), so the call raises
\* AttributeError, which the "except KeyError" at line 451 does not catch
GetPairing(h) ==
    /\ pc[h] = "run"
    /\ req[h].op = "getpairing"
    /\ Return(h, AttributeError)

\* InfoServiceAPI.POST with an entity name
PostEntity(h) == \E k \in Keys, n \in Names, d \in Payloads : Call(h, Req("storeentity", k, n, d))
\* InfoServiceAPI.POST without an entity name
PostDocument(h) == \E k \in Keys, d \in Payloads : Call(h, Req("storedocument", k, "", d))
\* InfoServiceAPI.PUT with an entity name
PutEntity(h) == \E k \in Keys, n \in Names, d \in Payloads : Call(h, Req("mergeentity", k, n, d))
\* InfoServiceAPI.PUT without an entity name
PutDocument(h) == \E k \in Keys, d \in Payloads : Call(h, Req("mergedocument", k, "", d))
\* InfoServiceAPI.DELETE
DeleteEntity(h) == \E k \in Keys, n \in Names : Call(h, Req("deleteentity", k, n, NoData))
\* deletedocument has no route in InfoServiceAPI; it is called on the handler
DeleteDocument(h) == \E k \in Keys : Call(h, Req("deletedocument", k, "", NoData))
\* InfoServiceAPI.GET
ReadDocument(h) == \E k \in Keys : Call(h, Req("getdocument", k, "", NoData))
ReadEntity(h) == \E k \in Keys, n \in Names : Call(h, Req("getentity", k, n, NoData))
ReadPairing(h) == \E k \in Keys, c \in Codes : Call(h, Req("getpairing", k, c, NoData))

Next ==
    \E h \in Handlers :
        \/ PostEntity(h)
        \/ PostDocument(h)
        \/ PutEntity(h)
        \/ PutDocument(h)
        \/ DeleteEntity(h)
        \/ DeleteDocument(h)
        \/ ReadDocument(h)
        \/ ReadEntity(h)
        \/ ReadPairing(h)
        \/ Acquire(h)
        \/ StoreEntityBody(h)
        \/ MergeEntityBody(h)
        \/ DeleteEntityBody(h)
        \/ StoreDocumentBody(h)
        \/ MergeDocumentBody(h)
        \/ DeleteDocumentBody(h)
        \/ GetDocument(h)
        \/ GetEntity(h)
        \/ GetPairing(h)

Spec == Init /\ [][Next]_vars

(***************************************************************************)
(* Requests run one after another: the documents a sequence of requests    *)
(* leaves, each request running alone from start to end.                   *)
(***************************************************************************)
\* the documents request r leaves when it runs alone on the documents s
Apply(r, s) ==
    LET cur == PersistGet(s, r.key)
    IN CASE r.op = "storeentity" -> Stored(s, r.key, storeentity(r.entityname, r.data, cur))
         [] r.op = "mergeentity" -> Stored(s, r.key, mergeentity(r.entityname, r.data, cur))
         [] r.op = "deleteentity" -> Stored(s, r.key, deleteentity(r.entityname, cur))
         [] r.op = "storedocument" -> Stored(s, r.key, storedocument(r.data))
         [] r.op = "mergedocument" -> Stored(s, r.key, mergedocument(r.data, cur))
         [] r.op = "deletedocument" -> Stored(s, r.key, deletedocument)
         [] OTHER -> s

\* the documents left by the requests of the handlers H run in every order
RECURSIVE SerialStores(_, _)
SerialStores(H, s) ==
    IF H = {} THEN {s}
    ELSE UNION {SerialStores(H \ {h}, Apply(req[h], s)) : h \in H}

\* handlers whose request has returned, and handlers that have made a request
Returned == {h \in Handlers : pc[h] = "idle" /\ req[h] # NoReq}
Called == {h \in Handlers : req[h] # NoReq}

\* h leaves its try block (and the method) in this step
Leaves(h) == pc[h] = "locked" /\ pc'[h] = "idle"

\* the entries of document doc whose pairingcode is code, and those of them
\* whose cert is not null
Matching(doc, code) ==
    {p \in DOMAIN doc.v : /\ doc.v[p].t = "map"
                          /\ "pairingcode" \in DOMAIN doc.v[p].v
                          /\ doc.v[p].v["pairingcode"] = Str(code)}
Ready(doc, code) ==
    {p \in Matching(doc, code) : /\ "cert" \in DOMAIN doc.v[p].v
                                 /\ doc.v[p].v["cert"] # Null}

(***************************************************************************)
(* The scenario of C1: every handler makes one POST of an entity, all for  *)
(* the same key and entity name, the name being absent at the start; each  *)
(* body has an entry for the name.                                         *)
(***************************************************************************)
CreateStores == InitStores \cup {<<>>, "pairing" :> Map("b" :> PairingEntry)}

InitCreate ==
    /\ store \in CreateStores
    /\ store0 = store
    /\ lock = NoHolder
    /\ pc = [h \in Handlers |-> "idle"]
    /\ req = [h \in Handlers |-> NoReq]
    /\ currentdoc = [h \in Handlers |-> Null]
    /\ result = [h \in Handlers |-> NoRes]
    /\ nops = 0

CreateCall(h) ==
    /\ req[h] = NoReq
    /\ \E k \in Keys, n \in Names, d \in Payloads :
          /\ n \in DOMAIN d.v
          /\ n \notin DOMAIN PersistGet(store0, k).v
          /\ \A g \in Called : req[g].key = k /\ req[g].entityname = n
          /\ Call(h, Req("storeentity", k, n, d))

NextCreate ==
    \E h \in Handlers :
        \/ CreateCall(h)
        \/ Acquire(h)
        \/ StoreEntityBody(h)

SpecCreate == InitCreate /\ [][NextCreate]_vars

\* C1: when handlers concurrently POST an entity under the same key and name,
\* the name being absent before, then among the calls that have returned
\* exactly one succeeded, every other one answered EntityExists, and the entity
\* stored under the name is the one the successful call sent.
C1_ExactlyOneCreateWins ==
    Returned # {} =>
        \E w \in Returned :
            /\ result[w] = Ok
            /\ \A h \in Returned \ {w} : result[h] = EntityExists
            /\ req[w].entityname \in DOMAIN PersistGet(store, req[w].key).v
            /\ PersistGet(store, req[w].key).v[req[w].entityname]
                   = req[w].data.v[req[w].entityname]

\* every handler has returned from its create, and two of them sent different bodies
C1_Witness ==
    /\ Returned = Handlers
    /\ \E g, h \in Handlers : req[g].data # req[h].data

\* C2 (as claimed): of two handlers that ran getpairing with the same key and
\* code while the document held a matching entry with a cert, at most one got
\* the entry and the other one answered PairingNotReady.
C2_AtMostOnePairingDelivered ==
    \A g, h \in Returned :
        ( /\ g # h
          /\ nops = 2
          /\ req[g] = req[h]
          /\ req[g].op = "getpairing"
          /\ Ready(PersistGet(store0, req[g].key), req[g].entityname) # {} )
        => /\ ~(result[g].status = "ok" /\ result[h].status = "ok")
           /\ result[g] = PairingNotReady \/ result[h] = PairingNotReady

\* C3 (as claimed): a getpairing that runs while the document holds an entry
\* with the code and a cert returns that entry and removes it from the stored
\* document; one that runs while no such entry is stored answers PairingNotReady.
C3_PairingExactlyOnceSequential ==
    [][\A h \in Handlers :
          (pc[h] = "run" /\ pc'[h] = "idle" /\ req[h].op = "getpairing")
          => LET doc == PersistGet(store, req[h].key)
                 code == req[h].entityname
             IN IF Ready(doc, code) # {}
                THEN \E p \in Ready(doc, code) :
                        /\ result'[h] = Res("ok", doc.v[p])
                        /\ p \notin DOMAIN PersistGet(store', req[h].key).v
                ELSE result'[h] = PairingNotReady]_vars

\* C4: a POST of an entity whose name is already in the stored document answers
\* EntityExists and changes no document; and a successful POST leaves the name
\* in the document, so that a second POST of the name is such a call.
C4_SecondCreateFails ==
    [][\A h \in Handlers :
          (Leaves(h) /\ req[h].op = "storeentity")
          => LET k == req[h].key
                 n == req[h].entityname
             IN /\ n \in DOMAIN PersistGet(store, k).v
                      => (result'[h] = EntityExists /\ store' = store)
                /\ (result'[h] = Ok /\ n \in DOMAIN req[h].data.v)
                      => n \in DOMAIN PersistGet(store', k).v]_vars

\* one create of a name succeeded, a second create of the same name was refused,
\* and the document is what the first create alone leaves
C4_Witness ==
    \E g, h \in Returned :
        /\ g # h
        /\ nops = 2
        /\ req[g].op = "storeentity" /\ req[h].op = "storeentity"
        /\ req[g].key = req[h].key /\ req[g].entityname = req[h].entityname
        /\ result[g] = Ok /\ result[h] = EntityExists
        /\ store = Apply(req[g], store0)

\* C5: a PUT of an entity or a DELETE whose entity name is not in the stored
\* document at the key (also when the key has no document) answers
\* EntityMissing and leaves every document of the store as it was.
C5_MissingEntityNoChange ==
    [][\A h \in Handlers :
          ( /\ Leaves(h)
            /\ req[h].op \in {"mergeentity", "deleteentity"}
            /\ req[h].entityname \notin DOMAIN PersistGet(store, req[h].key).v )
          => (result'[h] = EntityMissing /\ store' = store)]_vars

\* an update and a delete were both refused, on a key that has no document
C5_Witness ==
    \E g, h \in Returned :
        /\ req[g].op = "mergeentity" /\ req[h].op = "deleteentity"
        /\ req[g].entityname \in DOMAIN req[g].data.v
        /\ result[g] = EntityMissing /\ result[h] = EntityMissing
        /\ req[g].key \notin DOMAIN store /\ req[h].key \notin DOMAIN store


\* C6 (as claimed): every PUT of a document completes successfully and leaves
\* at the key the merge of the request body into the document stored before
\* (the empty mapping for a key without a document).
C6_MergeDocumentMerges ==
    [][\A h \in Handlers :
          (Leaves(h) /\ req[h].op = "mergedocument")
          => /\ result'[h] = Ok
             /\ req[h].key \in DOMAIN store'
             /\ PersistGet(store', req[h].key)
                    = merge(req[h].data, PersistGet(store, req[h].key))]_vars

C8_LockReleasedOnReturn ==
    \A h \in Handlers : pc[h] # "locked" => lock # h

\* two methods have returned, one with an exception and one with a refusal, and
\* nobody holds the lock
C8_Witness ==
    \E g, h \in Returned :
        /\ result[g] = NameError
        /\ result[h] \in {EntityExists, EntityMissing}
        /\ lock = NoHolder

\* C9: the methods that load and store run one at a time, what a method loaded
\* is what is stored while it runs, and once the handlers have each served one
\* request the documents are those the same requests leave when run one after
\* another in some order; two creates of different names in one document both
\* leave their entity.
C9_NoLostUpdates ==
    /\ \A g, h \in Handlers : (pc[g] = "locked" /\ pc[h] = "locked") => g = h
    /\ \A h \in Handlers :
          (pc[h] = "locked" /\ req[h].op \in LoadingOps)
          => currentdoc[h] = PersistGet(store, req[h].key)
    /\ (Returned = Called /\ nops = Cardinality(Called))
          => store \in SerialStores(Called, store0)
    /\ \A g, h \in Returned :
          ( /\ nops = 2
            /\ req[g].op = "storeentity" /\ req[h].op = "storeentity"
            /\ req[g].key = req[h].key
            /\ req[g].entityname # req[h].entityname
            /\ req[g].entityname \in DOMAIN req[g].data.v
            /\ req[h].entityname \in DOMAIN req[h].data.v
            /\ result[g] = Ok /\ result[h] = Ok )
          => {req[g].entityname, req[h].entityname}
                 \subseteq DOMAIN PersistGet(store, req[g].key).v

\* two handlers have created entities of different names in the same document
C9_Witness ==
    \E g, h \in Returned :
        /\ nops = 2
        /\ req[g].op = "storeentity" /\ req[h].op = "storeentity"
        /\ req[g].key = req[h].key
        /\ req[g].entityname # req[h].entityname
        /\ req[g].entityname \in DOMAIN req[g].data.v
        /\ req[h].entityname \in DOMAIN req[h].data.v
        /\ result[g] = Ok /\ result[h] = Ok

\* C10: a PUT of an entity whose name is stored and that the body has an entry
\* for succeeds; after a successful one every attribute of the body's entry has
\* the body's value, every other attribute of the entity has its old value, and
\* every other entity and every other document is unchanged.
C10_UpdateReplacesAttributes ==
    [][\A h \in Handlers :
          (Leaves(h) /\ req[h].op = "mergeentity")
          => LET k == req[h].key
                 n == req[h].entityname
                 old == PersistGet(store, k)
                 new == PersistGet(store', k)
             IN /\ (n \in DOMAIN old.v /\ n \in DOMAIN req[h].data.v) => result'[h] = Ok
                /\ result'[h] = Ok =>
                      LET frag == req[h].data.v[n]
                      IN /\ DOMAIN new.v = DOMAIN old.v
                         /\ \A m \in DOMAIN old.v \ {n} : new.v[m] = old.v[m]
                         /\ DOMAIN new.v[n].v = DOMAIN old.v[n].v \cup DOMAIN frag.v
                         /\ \A a \in DOMAIN frag.v : new.v[n].v[a] = frag.v[a]
                         /\ \A a \in DOMAIN old.v[n].v \ DOMAIN frag.v :
                               new.v[n].v[a] = old.v[n].v[a]
                         /\ DOMAIN store' = DOMAIN store
                         /\ \A x \in DOMAIN store \ {k} : store'[x] = store[x]]_vars

\* an update has replaced a list and a mapping attribute of a stored entity
\* and left its third attribute alone
C10_Witness ==
    \E h \in Returned :
        /\ req[h].op = "mergeentity"
        /\ req[h].entityname = "a"
        /\ req[h].data = D2
        /\ result[h] = Ok
        /\ nops = 1
        /\ store[req[h].key].v["a"] =
              Map("x" :> Num(1) @@ "y" :> List(<<Num(2)>>) @@ "z" :> Map("n" :> Num(2)))

\* h returns from a method that never takes the lock in this step
Returns(h) == pc[h] = "run" /\ pc'[h] = "idle"

\* every document but the one at key k is the same before and after the step
OthersUnchanged(k) ==
    /\ DOMAIN store' \ {k} = DOMAIN store \ {k}
    /\ \A x \in DOMAIN store \ {k} : store'[x] = store[x]

\* C11 (as claimed): a successful POST of an entity whose name is absent from
\* the stored document leaves the name in the document with the entity of the
\* body, leaves every other entity as it was, adds no other name and changes
\* no other document.
C11_CreateChangesOnlyName ==
    [][\A h \in Handlers :
          ( /\ Leaves(h)
            /\ req[h].op = "storeentity"
            /\ req[h].entityname \notin DOMAIN PersistGet(store, req[h].key).v
            /\ result'[h] = Ok )
          => LET k == req[h].key
                 n == req[h].entityname
                 old == PersistGet(store, k)
                 new == PersistGet(store', k)
             IN /\ DOMAIN new.v = DOMAIN old.v \cup {n}
                /\ n \in DOMAIN req[h].data.v
                /\ new.v[n] = req[h].data.v[n]
                /\ \A m \in DOMAIN old.v : new.v[m] = old.v[m]
                /\ OthersUnchanged(k)]_vars

\* C12: a DELETE of an entity whose name is in the stored document succeeds
\* and stores the document without that name: every other entity and every
\* other document is unchanged, a getentity, mergeentity or deleteentity of the
\* name that follows answers EntityMissing and a storeentity of it succeeds.
C12_DeleteRemovesExactlyName ==
    [][\A h \in Handlers :
          ( /\ Leaves(h)
            /\ req[h].op = "deleteentity"
            /\ req[h].entityname \in DOMAIN PersistGet(store, req[h].key).v )
          => LET k == req[h].key
                 n == req[h].entityname
                 old == PersistGet(store, k)
                 new == PersistGet(store', k)
             IN /\ result'[h] = Ok
                /\ k \in DOMAIN store'
                /\ DOMAIN new.v = DOMAIN old.v \ {n}
                /\ \A m \in DOMAIN new.v : new.v[m] = old.v[m]
                /\ OthersUnchanged(k)
                /\ getentity(n, new) = EntityMissing
                /\ deleteentity(n, new).res = EntityMissing
                /\ \A d \in Payloads :
                      /\ mergeentity(n, d, new).res = EntityMissing
                      /\ storeentity(n, d, new).res = Ok]_vars

\* an entity of the initial document was deleted and then created again by the
\* other handler, next to the entity that was never touched
C12_Witness ==
    \E g, h \in Returned :
        /\ nops = 2
        /\ req[g].op = "deleteentity" /\ req[g].entityname = "a" /\ result[g] = Ok
        /\ req[h] = Req("storeentity", req[g].key, "a", D2) /\ result[h] = Ok
        /\ "a" \in DOMAIN PersistGet(store0, req[g].key).v
        /\ PersistGet(store, req[g].key) = Map("a" :> E2 @@ "b" :> PairingEntry)

\* C13: a POST of a document succeeds and leaves exactly the request body at
\* the key, whatever was stored there before, so that getdocument returns the
\* body; the documents at the other keys are unchanged.
C13_StoreDocumentOverwrites ==
    [][\A h \in Handlers :
          (Leaves(h) /\ req[h].op = "storedocument")
          => LET k == req[h].key
             IN /\ result'[h] = Ok
                /\ k \in DOMAIN store'
                /\ store'[k] = req[h].data
                /\ PersistGet(store', k) = req[h].data
                /\ OthersUnchanged(k)]_vars

\* a body with one entity has replaced a document that held two
C13_Witness ==
    \E h \in Returned :
        /\ req[h] = Req("storedocument", "pairing", "", D2)
        /\ result[h] = Ok
        /\ nops = 1
        /\ store0["pairing"] = D1
        /\ store["pairing"] = D2

\* C14: deletedocument leaves the empty mapping at the key, whatever was stored
\* there: on it getentity, mergeentity and deleteentity answer EntityMissing
\* and storeentity succeeds, for every name; the other documents are unchanged,
\* and a key that was never written reads the same.
C14_DeleteDocumentEmpties ==
    [][\A h \in Handlers :
          (Leaves(h) /\ req[h].op = "deletedocument")
          => LET k == req[h].key
                 new == PersistGet(store', k)
             IN /\ result'[h] = Ok
                /\ new = EmptyDoc
                /\ OthersUnchanged(k)
                /\ \A x \in Keys \ DOMAIN store' : PersistGet(store', x) = new
                /\ \A n \in Names :
                      /\ getentity(n, new) = EntityMissing
                      /\ deleteentity(n, new).res = EntityMissing
                      /\ \A d \in Payloads :
                            /\ mergeentity(n, d, new).res = EntityMissing
                            /\ storeentity(n, d, new).res = Ok]_vars

\* a document that held entities has been emptied, while the other key has
\* never been written
C14_Witness ==
    \E h \in Returned :
        /\ req[h].op = "deletedocument"
        /\ result[h] = Ok
        /\ nops = 1
        /\ DOMAIN PersistGet(store0, req[h].key).v # {}
        /\ req[h].key \in DOMAIN store
        /\ PersistGet(store, req[h].key) = EmptyDoc
        /\ Keys \ DOMAIN store # {}

\* C15: getentity answers the entity stored under the name, or EntityMissing
\* when the name is not stored; it and getdocument, which answers the stored
\* document, change no document and neither take nor wait for the lock.
C15_GetEntityReadsOnly ==
    [][\A h \in Handlers :
          (Returns(h) /\ req[h].op \in {"getentity", "getdocument"})
          => LET doc == PersistGet(store, req[h].key)
                 n == req[h].entityname
             IN /\ store' = store
                /\ lock' = lock
                /\ lock # h
                /\ req[h].op = "getdocument" => result'[h] = Res("ok", doc)
                /\ req[h].op = "getentity" =>
                      IF n \in DOMAIN doc.v
                      THEN result'[h] = Res("ok", doc.v[n])
                      ELSE result'[h] = EntityMissing]_vars

\* a getentity has answered with the stored entity and its handler is back
\* while the other handler holds the lock
C15_Witness ==
    \E g, h \in Handlers :
        /\ h \in Returned
        /\ req[h].op = "getentity"
        /\ result[h] = Res("ok", E1)
        /\ pc[g] = "locked" /\ lock = g

\* C16 (as claimed): a getpairing that finds no entry with the code, or only
\* entries with the code whose cert is null, answers PairingNotReady and leaves
\* every document, the entry with the null cert included, as it was.
C16_PairingNotReadyNoChange ==
    [][\A h \in Handlers :
          ( /\ Returns(h)
            /\ req[h].op = "getpairing"
            /\ Ready(PersistGet(store, req[h].key), req[h].entityname) = {} )
          => /\ result'[h] = PairingNotReady
             /\ store' = store]_vars

\* C17 (as claimed): a getpairing that finds an entry with the code and a cert
\* returns one such entry as it was stored and removes that entry alone: every
\* other entry of the document and every other document stays as it was.
C17_PairingRemovesOnlyReturned ==
    [][\A h \in Handlers :
          ( /\ Returns(h)
            /\ req[h].op = "getpairing"
            /\ Ready(PersistGet(store, req[h].key), req[h].entityname) # {} )
          => LET k == req[h].key
                 old == PersistGet(store, k)
                 new == PersistGet(store', k)
             IN /\ \E p \in Ready(old, req[h].entityname) :
                      /\ result'[h] = Res("ok", old.v[p])
                      /\ DOMAIN new.v = DOMAIN old.v \ {p}
                /\ \A m \in DOMAIN new.v : new.v[m] = old.v[m]
                /\ OthersUnchanged(k)]_vars

\* C18 (as claimed): a mergedocument holds the lock from its load to its end
\* and its one step under the lock is one write of a document at its key.
C18_MergeDocumentOneWrite ==
    [][\A h \in Handlers :
          (Leaves(h) /\ req[h].op = "mergedocument")
          => /\ lock = h
             /\ lock' = NoHolder
             /\ currentdoc[h] = PersistGet(store, req[h].key)
             /\ store' = PersistStore(store, req[h].key, PersistGet(store', req[h].key))]_vars

(***************************************************************************)
(* merge as a function: one handler calls merge(src, dest) on values drawn *)
(* from MergeValues, as storeentity (line 99) and mergedocument (line 225)  *)
(* do with the request body and the loaded document.  req holds src,       *)
(* currentdoc holds dest and result the value returned.                    *)
(***************************************************************************)
\* the elements of the lists: numbers, a bool and a list
Elems == {Num(1), Num(2), Num(3), Bool(TRUE), List(<<Num(1)>>)}
MergeLists == {List(s) : s \in UNION {[1..m -> Elems] : m \in 0..MaxLen}}

\* mappings over three keys with numbers and lists as values
MapKeys == {"a", "b", "c"}
MapLeaves == {Num(1), Num(3), List(<<Num(1)>>), List(<<Num(2)>>)}
FlatMaps == {Map(f) : f \in UNION {[S -> MapLeaves] : S \in SUBSET MapKeys}}
\* mappings inside mappings, one and two levels down
Nest(m) == Map("n" :> m)
NestedMaps ==
    LET small == {m \in FlatMaps : "c" \notin DOMAIN m.v}
    IN {Nest(m) : m \in small} \cup {Nest(Nest(m)) : m \in FlatMaps}

\* a null, and an object of another type, inside a list or a mapping
Mismatched == {Nest(Null), Nest(Other), List(<<Other>>)}

MergeValues ==
    MergeLists \cup FlatMaps \cup NestedMaps \cup Mismatched
        \cup {Null, Bool(TRUE), Num(1), Str("s"), Other}

\* the values json.loads returns
RECURSIVE IsJson(_)
IsJson(x) ==
    IF x.t = "list" THEN \A i \in 1..Len(x.v) : IsJson(x.v[i])
    ELSE IF x.t = "map" THEN \A k \in DOMAIN x.v : IsJson(x.v[k])
    ELSE x.t \in {"null", "bool", "num", "str"}

\* the handler thread that calls merge
Caller == CHOOSE h \in Handlers : TRUE

InitMerge ==
    /\ store = <<>>
    /\ store0 = store
    /\ lock = NoHolder
    /\ pc = [h \in Handlers |-> "idle"]
    /\ req = [h \in Handlers |-> NoReq]
    /\ currentdoc = [h \in Handlers |-> Null]
    /\ result = [h \in Handlers |-> NoRes]
    /\ nops = 0

\* the call self.merge(src, dest)
MergeCall ==
    /\ pc[Caller] = "idle"
    /\ req[Caller] = NoReq
    /\ \E src, dest \in MergeValues :
          /\ req' = [req EXCEPT ![Caller] = Req("merge", "", "", src)]
          /\ currentdoc' = [currentdoc EXCEPT ![Caller] = dest]
    /\ pc' = [pc EXCEPT ![Caller] = "run"]
    /\ UNCHANGED <<store, store0, lock, result, nops>>

\* merge returns dest, or raises
MergeReturn ==
    /\ pc[Caller] = "run"
    /\ req[Caller].op = "merge"
    /\ LET r == merge(req[Caller].data, currentdoc[Caller])
       IN result' = [result EXCEPT ![Caller] =
                        IF r = Raise THEN MergeError ELSE Res("ok", r)]
    /\ pc' = [pc EXCEPT ![Caller] = "idle"]
    /\ UNCHANGED <<store, store0, lock, req, currentdoc, nops>>

\* the caller is done with the returned value
MergeDone ==
    /\ pc[Caller] = "idle"
    /\ req[Caller] # NoReq
    /\ req' = [req EXCEPT ![Caller] = NoReq]
    /\ currentdoc' = [currentdoc EXCEPT ![Caller] = Null]
    /\ result' = [result EXCEPT ![Caller] = NoRes]
    /\ UNCHANGED <<store, store0, lock, pc, nops>>

NextMerge == MergeCall \/ MergeReturn \/ MergeDone

SpecMerge == InitMerge /\ [][NextMerge]_vars

\* merge has returned to the caller with src and dest of types ts and td
Merged(ts, td) ==
    /\ pc[Caller] = "idle"
    /\ req[Caller] # NoReq
    /\ req[Caller].data.t = ts
    /\ currentdoc[Caller].t = td

\* C19: merge of a list src into a list dest returns dest's elements in their
\* order, duplicates included, followed by the elements of src that equal no
\* element of dest and no earlier element of src, in src's order; so every
\* element of src equals one of the result, and [2,3] into [1,2] gives [1,2,3].
C19_MergeListsAppendsNew ==
    Merged("list", "list") =>
        LET src == req[Caller].data.v
            dest == currentdoc[Caller].v
            r == result[Caller].value
            new == {i \in 1..Len(src) :
                       /\ ~PyIn(src[i], dest)
                       /\ \A j \in 1..(i - 1) : ~PyEq(src[j], src[i])}
        IN /\ result[Caller].status = "ok"
           /\ r.t = "list"
           /\ Len(r.v) = Len(dest) + Cardinality(new)
           /\ \A i \in 1..Len(dest) : r.v[i] = dest[i]
           /\ \A i \in new :
                 r.v[Len(dest) + Cardinality({j \in new : j <= i})] = src[i]
           /\ \A i \in 1..Len(src) : PyIn(src[i], r.v)
           /\ (src = <<Num(2), Num(3)>> /\ dest = <<Num(1), Num(2)>>)
                 => r = List(<<Num(1), Num(2), Num(3)>>)

\* [2,3] has been merged into [1,2]
C19_Witness ==
    /\ Merged("list", "list")
    /\ req[Caller].data = List(<<Num(2), Num(3)>>)
    /\ currentdoc[Caller] = List(<<Num(1), Num(2)>>)
    /\ result[Caller] = Res("ok", List(<<Num(1), Num(2), Num(3)>>))

\* C20: merge of a mapping src into a mapping dest returns a mapping whose keys
\* are those of both; a key of dest alone keeps its value, a key of src alone
\* gets src's value and a key of both gets the merge of the two values, at every
\* depth: a primitive is replaced, lists are appended to, mappings are merged
\* key by key; {"b":[2],"c":3} into {"a":1,"b":[1]} gives {"a":1,"b":[1,2],"c":3}.
C20_MergeMapsRecursive ==
    (Merged("map", "map") /\ IsJson(req[Caller].data) /\ IsJson(currentdoc[Caller])) =>
        LET src == req[Caller].data
            dest == currentdoc[Caller]
            r == result[Caller].value
            ex_src == Map("b" :> List(<<Num(2)>>) @@ "c" :> Num(3))
            ex_dest == Map("a" :> Num(1) @@ "b" :> List(<<Num(1)>>))
            ex_res == Map("a" :> Num(1) @@ "b" :> List(<<Num(1), Num(2)>>) @@ "c" :> Num(3))
        IN /\ result[Caller].status = "ok"
           /\ r.t = "map"
           /\ DOMAIN r.v = DOMAIN src.v \cup DOMAIN dest.v
           /\ \A k \in DOMAIN dest.v \ DOMAIN src.v : r.v[k] = dest.v[k]
           /\ \A k \in DOMAIN src.v \ DOMAIN dest.v : r.v[k] = src.v[k]
           /\ \A k \in DOMAIN src.v \cap DOMAIN dest.v :
                 /\ r.v[k] = merge(src.v[k], dest.v[k])
                 /\ IsPrimitive(dest.v[k]) => r.v[k] = src.v[k]
                 /\ (src.v[k].t = "list" /\ dest.v[k].t = "list") =>
                       /\ r.v[k].t = "list"
                       /\ SubSeq(r.v[k].v, 1, Len(dest.v[k].v)) = dest.v[k].v
                       /\ \A i \in 1..Len(src.v[k].v) : PyIn(src.v[k].v[i], r.v[k].v)
                 /\ (src.v[k].t = "map" /\ dest.v[k].t = "map") =>
                       /\ r.v[k].t = "map"
                       /\ DOMAIN r.v[k].v = DOMAIN src.v[k].v \cup DOMAIN dest.v[k].v
                       /\ \A x \in DOMAIN dest.v[k].v \ DOMAIN src.v[k].v :
                             r.v[k].v[x] = dest.v[k].v[x]
           /\ (src = ex_src /\ dest = ex_dest) => r = ex_res
           /\ (src = Nest(Nest(ex_src)) /\ dest = Nest(Nest(ex_dest)))
                 => r = Nest(Nest(ex_res))

\* {"b":[2],"c":3} has been merged into {"a":1,"b":[1]} two mappings down
C20_Witness ==
    /\ Merged("map", "map")
    /\ req[Caller].data = Nest(Nest(Map("b" :> List(<<Num(2)>>) @@ "c" :> Num(3))))
    /\ currentdoc[Caller] = Nest(Nest(Map("a" :> Num(1) @@ "b" :> List(<<Num(1)>>))))
    /\ result[Caller].status = "ok"
    /\ result[Caller].value.v["n"].v["n"].v["b"] = List(<<Num(1), Num(2)>>)

\* merge has returned to the caller, or raised
MergeEnded ==
    /\ pc[Caller] = "idle"
    /\ req[Caller] # NoReq
    /\ req[Caller].op = "merge"

\* C21: merge of a src that does not match dest does not fail: null into a
\* mapping returns null, also for a key of src and dest whose value in dest is a
\* mapping; any other non-mapping into a mapping returns the mapping as it was;
\* a non-list, null included, into a list returns the list as it was.
C21_MergeToleratesMismatch ==
    MergeEnded =>
        LET src == req[Caller].data
            dest == currentdoc[Caller]
        IN /\ (dest.t = "map" /\ src.t = "null") => result[Caller] = Res("ok", Null)
           /\ (dest.t = "map" /\ src.t \notin {"null", "map"})
                 => result[Caller] = Res("ok", dest)
           /\ (dest.t = "list" /\ src.t # "list") => result[Caller] = Res("ok", dest)
           /\ (dest.t = "map" /\ src.t = "map") =>
                 \A k \in DOMAIN src.v \cap DOMAIN dest.v :
                    /\ (dest.v[k].t = "map" /\ src.v[k].t = "null")
                          => /\ result[Caller].status = "ok"
                             /\ result[Caller].value.v[k] = Null
                    /\ (dest.v[k].t = "map" /\ src.v[k].t \notin {"null", "map"})
                          => /\ result[Caller].status = "ok"
                             /\ result[Caller].value.v[k] = dest.v[k]
                    /\ (dest.v[k].t = "list" /\ src.v[k].t # "list")
                          => /\ result[Caller].status = "ok"
                             /\ result[Caller].value.v[k] = dest.v[k]

\* a null under a key has replaced the mapping stored under that key
C21_Witness ==
    /\ MergeEnded
    /\ req[Caller].data = Nest(Null)
    /\ currentdoc[Caller] = Nest(Map("a" :> Num(1)))
    /\ result[Caller] = Res("ok", Nest(Null))

\* C22: merge into a dest that is null, a bool, a number or a string returns
\* src, whatever src is.
C22_MergePrimitiveOverwrites ==
    (MergeEnded /\ currentdoc[Caller].t \in {"null", "bool", "num", "str"})
        => result[Caller] = Res("ok", req[Caller].data)

\* a mapping has replaced a bool
C22_Witness ==
    /\ MergeEnded
    /\ currentdoc[Caller] = Bool(TRUE)
    /\ req[Caller].data.t = "map"
    /\ DOMAIN req[Caller].data.v # {}
    /\ result[Caller] = Res("ok", req[Caller].data)

\* merge(src, dest) comes to a dest value that is neither a primitive, a list
\* nor a mapping: dest itself, or a value under a key of both src and dest
RECURSIVE Meets(_, _)
Meets(src, dest) ==
    IF dest.t \in {"null", "bool", "num", "str", "list"} THEN FALSE
    ELSE IF dest.t = "map"
         THEN /\ src.t = "map"
              /\ \E k \in DOMAIN src.v \cap DOMAIN dest.v : Meets(src.v[k], dest.v[k])
         ELSE TRUE

\* C23: merge raises exactly when it comes to a dest value that is neither a
\* primitive, a list nor a mapping; on the values json.loads returns it always
\* returns a value.
C23_MergeRaisesOnlyOnOtherType ==
    MergeEnded =>
        LET src == req[Caller].data
            dest == currentdoc[Caller]
        IN /\ result[Caller] = MergeError <=> Meets(src, dest)
           /\ result[Caller] # MergeError => result[Caller].status = "ok"
           /\ (IsJson(src) /\ IsJson(dest)) => result[Caller].status = "ok"

\* merge has raised on an object of another type stored under a key
C23_Witness ==
    /\ MergeEnded
    /\ currentdoc[Caller] = Nest(Other)
    /\ req[Caller].data = Nest(Map("a" :> Num(1)))
    /\ result[Caller] = MergeError

\* C26: for src and dest values of JSON, merging src into the result of
\* merge(src, dest) returns that result again.
C26_MergeIdempotent ==
    (MergeEnded /\ IsJson(req[Caller].data) /\ IsJson(currentdoc[Caller])) =>
        /\ result[Caller].status = "ok"
        /\ merge(req[Caller].data, result[Caller].value) = result[Caller].value

\* a merge that added a key and a list element, and adds nothing when repeated
C26_Witness ==
    /\ MergeEnded
    /\ req[Caller].data = Map("b" :> List(<<Num(2)>>) @@ "c" :> Num(3))
    /\ currentdoc[Caller] = Map("a" :> Num(1) @@ "b" :> List(<<Num(1)>>))
    /\ result[Caller].status = "ok"
    /\ result[Caller].value # currentdoc[Caller]
    /\ merge(req[Caller].data, result[Caller].value) = result[Caller].value

\* C27 (as claimed): a PUT of an entity whose name is in the stored document
\* does not answer EntityMissing, whatever the body holds.
C27_UpdateOfStoredEntityFound ==
    [][\A h \in Handlers :
          ( /\ Leaves(h)
            /\ req[h].op = "mergeentity"
            /\ req[h].entityname \in DOMAIN PersistGet(store, req[h].key).v )
          => result'[h] # EntityMissing]_vars

\* what the read request r answers on the documents s
Read(r, s) ==
    IF r.op = "getdocument"
    THEN Res("ok", PersistGet(s, r.key))
    ELSE getentity(r.entityname, PersistGet(s, r.key))

LiveRequests ==
    { Req("storeentity", "user", "a", D2),
      Req("deleteentity", "user", "a", NoData),
      Req("mergedocument", "user", "", D2),
      Req("getdocument", "user", "", NoData) }

\* InfoServiceAPI dispatches one more request to an idle handler
LiveCall(h) ==
    /\ pc[h] = "idle"
    /\ \E r \in LiveRequests :
          /\ req' = [req EXCEPT ![h] = r]
          /\ pc' = [pc EXCEPT ![h] = IF r.op \in LockedOps THEN "acquire" ELSE "run"]
    /\ result' = [result EXCEPT ![h] = NoRes]
    /\ UNCHANGED <<store, lock, currentdoc, store0, nops>>

\* the methods' steps once called
LiveStep(h) ==
    \/ Acquire(h)
    \/ StoreEntityBody(h)
    \/ DeleteEntityBody(h)
    \/ MergeDocumentBody(h)
    \/ GetDocument(h)

NextLive == \E h \in Handlers : LiveCall(h) \/ LiveStep(h)

FairLive ==
    \A h \in Handlers :
        /\ WF_vars(Acquire(h))
        /\ WF_vars(StoreEntityBody(h) \/ DeleteEntityBody(h) \/ MergeDocumentBody(h))
        /\ WF_vars(GetDocument(h))

SpecLive == Init /\ [][NextLive]_vars /\ FairLive

\* C25 (as claimed): under weak fairness every request that has been called
\* returns.
C25_EveryOperationReturns ==
    \A h \in Handlers : (pc[h] # "idle") ~> (pc[h] = "idle")

\* C25 (amended): no handler waits for the lock while holding it; under weak
\* fairness every handler that holds the lock releases it and returns, and
\* every lock-free method returns; and a request that waits for the lock
\* returns too when the lock is granted fairly, that is when a handler that
\* finds the lock free again and again does get it.
C25_ReturnsUnderFairLock ==
    /\ [](\A h \in Handlers : pc[h] = "acquire" => lock # h)
    /\ \A h \in Handlers : (pc[h] \in {"locked", "run"}) ~> (pc[h] = "idle")
    /\ \A h \in Handlers : (lock = h) ~> (lock = NoHolder)
    /\ (\A h \in Handlers : SF_vars(Acquire(h)))
          => \A h \in Handlers : (pc[h] # "idle") ~> (pc[h] = "idle")

\* a handler waits for the lock that another handler holds, after a request of
\* its own has already returned
C25_Witness ==
    \E g, h \in Handlers :
        /\ pc[h] = "acquire"
        /\ pc[g] = "locked"
        /\ lock = g
        /\ PersistGet(store, "user") # PersistGet(store0, "user")

====
